---------------------------- MODULE Spec2Model ----------------------------
(***************************************************************************)
(* A model of mock-apollo-client's MockLink (src/src/mockLink.ts) and      *)
(* MockSubscription (src/src/mockSubscription.ts).                         *)
(*                                                                         *)
(* The test author registers request handlers on a MockLink, the client    *)
(* dispatches operations through MockLink.request, subscribes to the       *)
(* returned Observable, and handler code drives promises and               *)
(* MockSubscription handles.  Each action below is one such call, or one   *)
(* job of the promise job queue.                                           *)
(***************************************************************************)
EXTENDS Integers, Sequences, FiniteSets, TLC

Undefined == "undefined"

(***************************************************************************)
(* Query documents.  A document is the selection set of one operation: a   *)
(* sequence of fields, each with a name and the directives that matter to  *)
(* the link (@client, @connection).  A transform that may return null      *)
(* returns a record saying so.                                             *)
(***************************************************************************)
Field(n, cl, co) == [name |-> n, client |-> cl, connection |-> co]

GetUser          == << Field("user", FALSE, FALSE) >>
GetUserTypename  == << Field("user", FALSE, FALSE), Field("__typename", FALSE, FALSE) >>
GetUserAndLocal  == << Field("user", FALSE, FALSE), Field("local", TRUE, FALSE) >>
GetLocal         == << Field("local", TRUE, FALSE) >>
GetPosts         == << Field("posts", FALSE, TRUE) >>

\* the documents the test author and the client use
Queries == { GetUser, GetUserTypename, GetUserAndLocal, GetLocal, GetPosts }

NullDocument == [isNull |-> TRUE, document |-> << >>]
Document(doc) == [isNull |-> FALSE, document |-> doc]

\* a transform that keeps the fields marked @client
keepClientSetsInDocument(doc) == Document(doc)

\* removeClientSetsFromDocument: drops the fields marked @client; null when
\* nothing is left of the operation
removeClientSetsFromDocument(doc) ==
    LET kept == SelectSeq(doc, LAMBDA f : ~f.client)
    IN  IF kept = << >> THEN NullDocument ELSE Document(kept)

\* removeConnectionDirectiveFromDocument: drops the @connection directive,
\* keeps the field; null when the operation is empty
removeConnectionDirectiveFromDocument(doc) ==
    IF doc = << >> THEN NullDocument
    ELSE Document([i \in 1..Len(doc) |-> [doc[i] EXCEPT !.connection = FALSE]])

stripTypenames(document) ==
    Document(SelectSeq(document, LAMBDA f : f.name # "__typename"))

normalise(requestQuery) ==
    LET stripped0 == removeConnectionDirectiveFromDocument(requestQuery)
        stripped  == IF ~stripped0.isNull
                     THEN stripTypenames(stripped0.document)
                     ELSE NullDocument
    IN  IF stripped.isNull THEN requestQuery ELSE stripped.document

\* graphql's print: the text of the document, as a sequence of tokens
RECURSIVE print(_)
print(doc) ==
    IF doc = << >> THEN << >>
    ELSE LET f == Head(doc)
         IN  << f.name >>
             \o (IF f.client THEN << "@client" >> ELSE << >>)
             \o (IF f.connection THEN << "@connection" >> ELSE << >>)
             \o print(Tail(doc))

\* JSON.stringify({ query: queryString })
JSONStringify(requestKey) == << "{\"query\":" >> \o requestKey.query \o << "}" >>

\* query is a document, which is truthy: query && print(normalised) is the text
requestToKey(query) ==
    LET normalised  == normalise(query)
        queryString == print(normalised)
        requestKey  == [query |-> queryString]
    IN  JSONStringify(requestKey)

\* every key a registration or a dispatch of a document of Queries can derive
Keys == { requestToKey(q) : q \in Queries }
        \cup { requestToKey(removeClientSetsFromDocument(q).document) : q \in Queries }

(***************************************************************************)
(* Request handlers.  A handler is a function the test author supplies;    *)
(* what a call of it does is the environment's choice among the outcomes   *)
(* of its kind: it returns a promise, returns a MockSubscription, returns  *)
(* something else, or throws.                                              *)
(***************************************************************************)
Handlers == { "promiseHandler", "subscriptionHandler", "throwingHandler", "otherHandler" }

Variables == { "variables1", "variables2" }

Returned(tag) == [threw |-> FALSE, tag |-> tag, payload |-> << >>]
Threw(tag, payload) == [threw |-> TRUE, tag |-> tag, payload |-> payload]

\* the outcomes of handler(operation.variables)
HandlerOutcomes(handler) ==
    CASE handler = "promiseHandler"      -> { Returned("promise") }
      [] handler = "subscriptionHandler" -> { Returned("MockSubscription") }
      [] handler = "throwingHandler"     -> { Threw("Error", << "oops" >>),
                                              Threw("string", << "oops" >>) }
      [] handler = "otherHandler"        -> { Returned("undefined"), Returned("number") }

\* what the handler's promise resolves to, and what it rejects with
ResolvedValue == << "data" >>
RejectedReason == << "boom" >>

\* JavaScript truthiness, property lookup and instanceof on a handler's result
\* (the number a handler returns is not 0)
Truthy(value) == value.tag # "undefined"
HasThenFunction(value) == value.tag = "promise"
InstanceOfMockSubscription(value) == value.tag = "MockSubscription"

\* a check that takes every truthy value for a promise
isPromiseForAnyTruthy(maybePromise) == Truthy(maybePromise)

isPromise(maybePromise) == Truthy(maybePromise) /\ HasThenFunction(maybePromise)

isSubscription(maybeSubscription) ==
    Truthy(maybeSubscription) /\ InstanceOfMockSubscription(maybeSubscription)

\* typeof result
TypeOf(result) ==
    IF result.tag \in { "promise", "MockSubscription" } THEN "object" ELSE result.tag

getNotDefinedHandlerMessage(operation) ==
    << "Request handler not defined for query: " >> \o print(operation.query)

(***************************************************************************)
(* The messages of the errors and warnings, as sequences of tokens.        *)
(***************************************************************************)
AlreadyDefinedMessage(requestQuery) ==
    << "Request handler already defined for query: " >> \o print(requestQuery)

\* a wrapper that drops what the handler threw
UnexpectedErrorMessageWithoutOriginal(error) ==
    << "Unexpected error whilst calling request handler: " >>

UnexpectedErrorMessage(error) ==
    \* error instanceof Error ? error.message : error
    << "Unexpected error whilst calling request handler: " >> \o error.payload

InvalidReturnMessage(result) ==
    << "Request handler must return a promise or subscription. Received '",
       TypeOf(result), "'." >>

ClientSideWarning ==
    << "Warning: mock-apollo-client - The query is entirely client side (using @client directives) so the request handler will not be registered." >>
OverrideWarning ==
    << "Warning: mock-apollo-client - Subscription observer should probably not be overriden" >>
NoObserverWarning ==
    << "Warning: mock-apollo-client - Subscription has no observer, this will have no effect" >>
ClosedWarning ==
    << "Warning: mock-apollo-client - Subscription is closed, this will have no effect" >>

NoError == << >>

(***************************************************************************)
(* The state.                                                              *)
(***************************************************************************)
VARIABLES
    options,              \* the MockLinkOptions the link was constructed with
    missingHandlerPolicy, \* MockLink.missingHandlerPolicy
    requestHandlers,      \* MockLink.requestHandlers: key -> handler or undefined
    observables,          \* the Observables request has returned, with what each closes over
    subscriptions,        \* the subscriptions to them, with what each one's observer received
    observer,             \* MockSubscription.observer: a subscription, or 0 for undefined
    loggingDisabled,      \* MockSubscription.loggingDisabled
    warnings,             \* what console.warn was called with, in order
    raised,               \* what the last call threw to its caller (NoError: it returned)
    registerCount,        \* setRequestHandler calls so far
    emitCount             \* next/error/complete calls on the MockSubscription so far

vars == << options, missingHandlerPolicy, requestHandlers, observables, subscriptions,
           observer, loggingDisabled, warnings, raised, registerCount, emitCount >>

MissingHandlerPolicies == { "throw-error", "warn-and-return-error", "return-error" }

DEFAULT_MISSING_HANDLER_POLICY == "throw-error"

\* MockLink's constructor: options?.missingHandlerPolicy || DEFAULT_MISSING_HANDLER_POLICY
ConstructedPolicy(opts) ==
    IF opts.missingHandlerPolicy # Undefined
    THEN opts.missingHandlerPolicy
    ELSE DEFAULT_MISSING_HANDLER_POLICY

\* a MockLink and a MockSubscription, just constructed
Constructed ==
    /\ options \in [missingHandlerPolicy : MissingHandlerPolicies \cup { Undefined }]
    /\ missingHandlerPolicy = ConstructedPolicy(options)
    /\ requestHandlers = [k \in Keys |-> Undefined]
    /\ observables = << >>
    /\ subscriptions = << >>
    /\ observer = 0
    /\ loggingDisabled \in BOOLEAN
    /\ warnings = << >>
    /\ raised = NoError
    /\ registerCount = 0
    /\ emitCount = 0

(***************************************************************************)
(* MockLink.setRequestHandler(requestQuery, handler).  The signature has   *)
(* two parameters: a third argument (an options object with replace) is    *)
(* accepted by JavaScript and never read.                                  *)
(***************************************************************************)
\* a duplicate check that never finds a handler
HandlerNeverDefined(handlers, key) == FALSE

\* if (this.requestHandlers[key]): a handler is already defined for the key
HandlerAlreadyDefined(handlers, key) == handlers[key] # Undefined

\* this.requestHandlers[key] = handler
StoreHandler(handlers, key, handler) == [handlers EXCEPT ![key] = handler]

SetRequestHandler(requestQuery, handler, replace) ==
    /\ registerCount' = registerCount + 1
    /\ LET queryWithoutClientDirectives == removeClientSetsFromDocument(requestQuery)
       IN  IF queryWithoutClientDirectives.isNull
           THEN /\ warnings' = Append(warnings, ClientSideWarning)
                /\ raised' = NoError
                /\ UNCHANGED requestHandlers
           ELSE LET key == requestToKey(queryWithoutClientDirectives.document)
                IN  IF HandlerAlreadyDefined(requestHandlers, key)
                    THEN /\ raised' = AlreadyDefinedMessage(requestQuery)
                         /\ UNCHANGED << requestHandlers, warnings >>
                    ELSE /\ requestHandlers' = StoreHandler(requestHandlers, key, handler)
                         /\ raised' = NoError
                         /\ UNCHANGED warnings
    /\ UNCHANGED << options, missingHandlerPolicy, observables, subscriptions, observer,
                    loggingDisabled, emitCount >>

(***************************************************************************)
(* MockLink.request(operation): looks the handler up and returns an        *)
(* Observable that closes over it, or throws.                              *)
(***************************************************************************)
Operations == [query : Queries, variables : Variables]

\* a request that leaves every missing handler to the Observable
ThrowsForNoPolicy(handler, policy) == FALSE

\* if (!handler && this.missingHandlerPolicy === 'throw-error')
ThrowsForMissingHandler(handler, policy) ==
    handler = Undefined /\ policy = "throw-error"

Request(operation) ==
    LET key     == requestToKey(operation.query)
        handler == requestHandlers[key]
    IN  /\ IF ThrowsForMissingHandler(handler, missingHandlerPolicy)
           THEN /\ raised' = getNotDefinedHandlerMessage(operation)
                /\ UNCHANGED observables
           ELSE /\ observables' = Append(observables,
                                         [handler |-> handler, operation |-> operation])
                /\ raised' = NoError
        /\ UNCHANGED << options, missingHandlerPolicy, requestHandlers, subscriptions,
                        observer, loggingDisabled, warnings, registerCount, emitCount >>

(***************************************************************************)
(* The Observable's subscription and its SubscriptionObserver: a signal    *)
(* sent while the subscriber function is still running is queued and       *)
(* delivered by a later job; a signal sent to a closed subscription is     *)
(* dropped; error and complete close the subscription.                     *)
(***************************************************************************)
Signal(type, value) == [type |-> type, value |-> value]

\* the observer's callback is called
Deliver(sub, signal) ==
    [sub EXCEPT !.received = Append(@, signal),
                !.state = IF signal.type \in { "error", "complete" } THEN "closed" ELSE @]

\* SubscriptionObserver.next / error / complete
Notify(sub, signal) ==
    CASE sub.state = "closed"    -> sub
      [] sub.state = "buffering" -> [sub EXCEPT !.queue = Append(@, signal)]
      [] OTHER                   -> Deliver(sub, signal)

\* a subscription whose subscriber function has not called the handler
NotInvoked == [handler |-> Undefined, variables |-> Undefined]
NoResult == [threw |-> FALSE, tag |-> "none", payload |-> << >>]

\* observable: the Observable subscribed to; state, queue: the subscription's;
\* invoked, result: the handler call the subscriber function made and its outcome;
\* promise, job: the handler's promise and the reaction that is due;
\* received: the observer's callbacks called so far; unsubscribed: torn down
NewSubscription(o) ==
    [observable |-> o, state |-> "ready", queue |-> << >>, invoked |-> NotInvoked,
     result |-> NoResult, promise |-> "none", job |-> "none", received |-> << >>,
     unsubscribed |-> FALSE]

\* the subscriber function threw: the error is queued for the observer
ThrowInSubscriber(o, message) ==
    [NewSubscription(o) EXCEPT !.state = "buffering",
                               !.queue = << Signal("error", message) >>]

(***************************************************************************)
(* MockSubscription: the handle a handler returns for a live stream.       *)
(***************************************************************************)
\* a closed that only says whether an observer was ever attached
closedWhenUnattached == observer = 0

\* a closed that stays true once a subscription has closed
closedOnceAnyClosed ==
    \/ observer = 0
    \/ \E i \in 1..Len(subscriptions) : subscriptions[i].state = "closed"

\* get closed(): this.observer?.closed ?? true
closed ==
    IF observer = 0 THEN TRUE ELSE subscriptions[observer].state = "closed"

\* a subscribe that replaces the observer without a word
SubscribeWithoutWarning(logged) == logged

\* MockSubscription.subscribe(observer): the warning it logs
SubscribeWarnings(logged) ==
    IF observer # 0 /\ ~loggingDisabled THEN Append(logged, OverrideWarning) ELSE logged

\* a verifyState that does not read loggingDisabled
verifyStateAlwaysLogging(logged) ==
    IF observer = 0 THEN Append(logged, NoObserverWarning)
    ELSE IF closed THEN Append(logged, ClosedWarning)
    ELSE logged

\* MockSubscription.verifyState(): the warning it logs
verifyState(logged) ==
    IF loggingDisabled THEN logged
    ELSE IF observer = 0 THEN Append(logged, NoObserverWarning)
    ELSE IF closed THEN Append(logged, ClosedWarning)
    ELSE logged

\* a forwarding that calls the observer twice
ForwardTwice(subs, signal) ==
    IF observer = 0 THEN subs
    ELSE [subs EXCEPT ![observer] = Notify(Notify(@, signal), signal)]

\* this.observer?.next(value), this.observer?.error(errorValue), this.observer?.complete()
Forward(subs, signal) ==
    IF observer = 0 THEN subs
    ELSE [subs EXCEPT ![observer] = Notify(@, signal)]

\* the values handler code emits: the n-th call's value names n
EmitValue(n) == << "value", ToString(n) >>
EmitError(n) == << "failure", ToString(n) >>

MockSubscriptionCall(signal) ==
    /\ emitCount' = emitCount + 1
    /\ warnings' = verifyState(warnings)
    /\ subscriptions' = Forward(subscriptions, signal)
    /\ raised' = NoError
    /\ UNCHANGED << options, missingHandlerPolicy, requestHandlers, observables, observer,
                    loggingDisabled, registerCount >>

\* MockSubscription.next(value)
MockSubscriptionNext == MockSubscriptionCall(Signal("next", EmitValue(emitCount + 1)))

\* MockSubscription.error(errorValue)
MockSubscriptionError == MockSubscriptionCall(Signal("error", EmitError(emitCount + 1)))

\* MockSubscription.complete()
MockSubscriptionComplete == MockSubscriptionCall(Signal("complete", << >>))

(***************************************************************************)
(* Observable.subscribe(observer): runs the subscriber function that       *)
(* request passed to new Observable.                                       *)
(***************************************************************************)
\* a check that warns under every policy that returns the error
WarnsUnlessThrowError(policy) == policy # "throw-error"

\* a check that never warns
WarnsUnderNoPolicy(policy) == FALSE

\* if (this.missingHandlerPolicy === 'warn-and-return-error')
WarnsForMissingHandler(policy) == policy = "warn-and-return-error"

\* a call that passes the handler nothing
HandlerCallWithoutVariables(handler, operation) ==
    [handler |-> handler, variables |-> Undefined]

\* handler(operation.variables): the call the subscriber function makes
HandlerCall(handler, operation) ==
    [handler |-> handler, variables |-> operation.variables]

\* the subscriber function from the handler's outcome on: the subscription it leaves
SubscriberResult(o, outcome) ==
    IF outcome.threw
    THEN ThrowInSubscriber(o, UnexpectedErrorMessage(outcome))
    ELSE IF isPromise(outcome)
    THEN [NewSubscription(o) EXCEPT !.promise = "pending"]
    ELSE IF isSubscription(outcome)
    THEN NewSubscription(o)
    ELSE ThrowInSubscriber(o, InvalidReturnMessage(outcome))

\* a subscriber function that looks the handler up when it runs
HandlerAtSubscription(o) ==
    requestHandlers[requestToKey(observables[o].operation.query)]

\* handler, as the subscriber function sees it: the const that request set
\* before it constructed the Observable
CapturedHandler(o) == observables[o].handler

Subscribe(o) ==
    /\ LET id        == Len(subscriptions) + 1
           handler   == CapturedHandler(o)
           operation == observables[o].operation
       IN  IF handler = Undefined
           THEN /\ warnings' = IF WarnsForMissingHandler(missingHandlerPolicy)
                               THEN Append(warnings, getNotDefinedHandlerMessage(operation))
                               ELSE warnings
                /\ subscriptions' =
                       Append(subscriptions,
                              ThrowInSubscriber(o, getNotDefinedHandlerMessage(operation)))
                /\ UNCHANGED observer
           ELSE \E outcome \in HandlerOutcomes(handler) :
                /\ subscriptions' =
                       Append(subscriptions,
                              [SubscriberResult(o, outcome)
                                 EXCEPT !.invoked = HandlerCall(handler, operation),
                                        !.result = outcome])
                /\ IF ~outcome.threw /\ ~isPromise(outcome) /\ isSubscription(outcome)
                   THEN /\ warnings' = SubscribeWarnings(warnings)
                        /\ observer' = id
                   ELSE UNCHANGED << warnings, observer >>
    /\ raised' = NoError
    /\ UNCHANGED << options, missingHandlerPolicy, requestHandlers, observables,
                    loggingDisabled, registerCount, emitCount >>

\* the job that delivers what was queued while the subscriber function ran
RECURSIVE FlushQueue(_, _)
FlushQueue(sub, queue) ==
    IF queue = << >> \/ sub.state = "closed" THEN sub
    ELSE FlushQueue(Deliver(sub, Head(queue)), Tail(queue))

Flush(i) ==
    /\ subscriptions[i].state = "buffering"
    /\ subscriptions' =
           [subscriptions EXCEPT
              ![i] = FlushQueue([@ EXCEPT !.state = "ready", !.queue = << >>], @.queue)]
    /\ UNCHANGED << options, missingHandlerPolicy, requestHandlers, observables, observer,
                    loggingDisabled, warnings, raised, registerCount, emitCount >>

\* a cleanup that takes the observer off the MockSubscription
CleanupDetaching(link) == [link EXCEPT !.observer = 0]

\* the subscriber function's return value, () => { }: what it does to the handler's
\* side of the link (the registry and the MockSubscription's observer)
Cleanup(link) == link

\* subscription.unsubscribe(): closes the subscription and runs the cleanup
Unsubscribe(i) ==
    /\ subscriptions[i].state # "closed"
    /\ subscriptions' = [subscriptions EXCEPT ![i] = [@ EXCEPT !.state = "closed",
                                                               !.queue = << >>,
                                                               !.unsubscribed = TRUE]]
    /\ LET after == Cleanup([requestHandlers |-> requestHandlers, observer |-> observer])
       IN  /\ requestHandlers' = after.requestHandlers
           /\ observer' = after.observer
    /\ raised' = NoError
    /\ UNCHANGED << options, missingHandlerPolicy, observables, loggingDisabled, warnings,
                    registerCount, emitCount >>

(***************************************************************************)
(* The handler's promise and the two reactions request chains on it:       *)
(* result.then(...).catch(...).  Each reaction is a job of its own.        *)
(***************************************************************************)
\* the handler's promise settles
PromiseSettle(i, outcome) ==
    /\ subscriptions[i].promise = "pending"
    /\ subscriptions' = [subscriptions EXCEPT ![i] = [@ EXCEPT !.promise = outcome,
                                                               !.job = "then"]]
    /\ UNCHANGED << options, missingHandlerPolicy, requestHandlers, observables, observer,
                    loggingDisabled, warnings, raised, registerCount, emitCount >>

\* a then callback that forgets observer.complete()
ThenCallbackWithoutComplete(sub, result) ==
    Notify(sub, Signal("next", result))

\* (result) => { observer.next(result); observer.complete(); }
ThenCallback(sub, result) ==
    Notify(Notify(sub, Signal("next", result)), Signal("complete", << >>))

\* a catch callback that hands the reason to observer.next
CatchCallbackAsNext(sub, error) ==
    Notify(sub, Signal("next", error))

\* (error) => { observer.error(error); }
CatchCallback(sub, error) ==
    Notify(sub, Signal("error", error))

\* the reaction of .then: runs the callback on fulfilment, passes a rejection on
ThenJob(i) ==
    /\ subscriptions[i].job = "then"
    /\ subscriptions' =
           [subscriptions EXCEPT
              ![i] = [(IF @.promise = "fulfilled" THEN ThenCallback(@, ResolvedValue) ELSE @)
                      EXCEPT !.job = "catch"]]
    /\ UNCHANGED << options, missingHandlerPolicy, requestHandlers, observables, observer,
                    loggingDisabled, warnings, raised, registerCount, emitCount >>

\* the reaction of .catch: runs the callback on rejection, passes a fulfilment on
CatchJob(i) ==
    /\ subscriptions[i].job = "catch"
    /\ subscriptions' =
           [subscriptions EXCEPT
              ![i] = [(IF @.promise = "rejected" THEN CatchCallback(@, RejectedReason) ELSE @)
                      EXCEPT !.job = "done"]]
    /\ UNCHANGED << options, missingHandlerPolicy, requestHandlers, observables, observer,
                    loggingDisabled, warnings, raised, registerCount, emitCount >>

(***************************************************************************)
(* Dispatch: the test author registers a handler of any kind for GetUser,  *)
(* the client dispatches GetUser, subscribes and unsubscribes, and the job *)
(* queue runs the promise reactions.  The bounds say how many              *)
(* setRequestHandler calls, Observables and subscriptions a behaviour has. *)
(***************************************************************************)
DispatchRegisters == 2
DispatchRequests == 1
DispatchSubscribes == 2

DispatchOperations == { op \in Operations : op.query = GetUser /\ op.variables = "variables1" }

Init ==
    /\ Constructed
    /\ loggingDisabled = FALSE

Next ==
    \/ \E h \in Handlers, replace \in BOOLEAN :
          /\ registerCount < DispatchRegisters
          /\ SetRequestHandler(GetUser, h, replace)
    \/ \E operation \in DispatchOperations :
          /\ Len(observables) < DispatchRequests
          /\ Request(operation)
    \/ \E o \in 1..Len(observables) :
          /\ Len(subscriptions) < DispatchSubscribes
          /\ Subscribe(o)
    \/ \E i \in 1..Len(subscriptions) : Flush(i)
    \/ \E i \in 1..Len(subscriptions) : Unsubscribe(i)
    \/ \E i \in 1..Len(subscriptions), outcome \in { "fulfilled", "rejected" } :
          PromiseSettle(i, outcome)
    \/ \E i \in 1..Len(subscriptions) : ThenJob(i)
    \/ \E i \in 1..Len(subscriptions) : CatchJob(i)

Spec == Init /\ [][Next]_vars

(***************************************************************************)
(* The registry: the test author registers handlers for any documents and  *)
(* the client dispatches any operations.                                   *)
(***************************************************************************)
RegistryRegisters == 2
RegistryRequests == 1

RegistryOperations == { op \in Operations : op.variables = "variables1" }

InitRegistry ==
    /\ Constructed
    /\ loggingDisabled = FALSE

NextRegistry ==
    \/ \E q \in Queries, h \in Handlers, replace \in BOOLEAN :
          /\ registerCount < RegistryRegisters
          /\ SetRequestHandler(q, h, replace)
    \/ \E operation \in RegistryOperations :
          /\ Len(observables) < RegistryRequests
          /\ Request(operation)

SpecRegistry == InitRegistry /\ [][NextRegistry]_vars

(***************************************************************************)
(* A live stream: a link with the default policy whose one handler returns *)
(* the MockSubscription, and handler code that calls next, error and       *)
(* complete on it at any time.                                             *)
(***************************************************************************)
StreamRegisters == 1
StreamRequests == 1
StreamSubscribes == 2
StreamEmits == 3

InitSubscription ==
    /\ Constructed
    /\ options.missingHandlerPolicy = Undefined

NextSubscription ==
    \/ \E replace \in BOOLEAN :
          /\ registerCount < StreamRegisters
          /\ SetRequestHandler(GetUser, "subscriptionHandler", replace)
    \/ \E operation \in DispatchOperations :
          /\ Len(observables) < StreamRequests
          /\ Request(operation)
    \/ \E o \in 1..Len(observables) :
          /\ Len(subscriptions) < StreamSubscribes
          /\ Subscribe(o)
    \/ \E i \in 1..Len(subscriptions) : Unsubscribe(i)
    \/ emitCount < StreamEmits /\ MockSubscriptionNext
    \/ emitCount < StreamEmits /\ MockSubscriptionError
    \/ emitCount < StreamEmits /\ MockSubscriptionComplete

SpecSubscription == InitSubscription /\ [][NextSubscription]_vars

(***************************************************************************)
(* Invocation: the test author registers one handler for GetUser, and the  *)
(* client dispatches GetUser with either variables, several times, and     *)
(* subscribes to any of the returned Observables any number of times.      *)
(***************************************************************************)
InvocationRegisters == 1
InvocationRequests == 2
InvocationSubscribes == 2

InvocationOperations == { op \in Operations : op.query = GetUser }

InitInvocation ==
    /\ Constructed
    /\ loggingDisabled = FALSE

NextInvocation ==
    \/ \E h \in Handlers, replace \in BOOLEAN :
          /\ registerCount < InvocationRegisters
          /\ SetRequestHandler(GetUser, h, replace)
    \/ \E operation \in InvocationOperations :
          /\ Len(observables) < InvocationRequests
          /\ Request(operation)
    \/ \E o \in 1..Len(observables) :
          /\ Len(subscriptions) < InvocationSubscribes
          /\ Subscribe(o)

SpecInvocation == InitInvocation /\ [][NextInvocation]_vars

(***************************************************************************)
(* The claims.                                                             *)
(***************************************************************************)
IsPrefix(s, t) == Len(s) <= Len(t) /\ s = SubSeq(t, 1, Len(s))

\* the subscriptions whose handler's promise settled as outcome
PromiseSubscriptions(outcome) ==
    { i \in 1..Len(subscriptions) : subscriptions[i].promise = outcome }

ResolvedSignals ==
    << [type |-> "next", value |-> ResolvedValue], [type |-> "complete", value |-> << >>] >>

RejectedSignals == << [type |-> "error", value |-> RejectedReason] >>

\* C1: when the handler's promise resolves to v, the observer of every
\* subscription receives next(v) and then complete, once each and in that
\* order, and never error: at any time it has received the beginning of
\* << next(v), complete >>, and all of it once the then reaction has run (an
\* observer that unsubscribed before it ran has left and receives nothing).
C1_ResolvedNextThenComplete ==
    \A i \in PromiseSubscriptions("fulfilled") :
        LET sub == subscriptions[i]
        IN  /\ IsPrefix(sub.received, ResolvedSignals)
            /\ \A k \in 1..Len(sub.received) : sub.received[k].type # "error"
            /\ sub.job \in { "catch", "done" } /\ ~sub.unsubscribed
                   => sub.received = ResolvedSignals
            /\ sub.job = "then" \/ sub.unsubscribed => sub.received = << >>

\* two subscribers of a resolved promise have both received next(v), complete
C1_Witness ==
    /\ Len(subscriptions) = 2
    /\ \A i \in 1..2 : /\ subscriptions[i].promise = "fulfilled"
                       /\ subscriptions[i].job = "done"
                       /\ subscriptions[i].received = ResolvedSignals

\* C2: when the handler's promise rejects with r, the observer receives
\* error(r) once and neither next nor complete: at any time it has received
\* nothing or << error(r) >>, and << error(r) >> once the catch reaction has
\* run (unless it unsubscribed before).
C2_RejectedErrorOnly ==
    \A i \in PromiseSubscriptions("rejected") :
        LET sub == subscriptions[i]
        IN  /\ IsPrefix(sub.received, RejectedSignals)
            /\ sub.job = "done" /\ ~sub.unsubscribed => sub.received = RejectedSignals
            /\ sub.job # "done" \/ sub.unsubscribed => sub.received = << >>

\* a subscriber of a rejected promise has received error(r) and nothing else
C2_Witness ==
    \E i \in PromiseSubscriptions("rejected") :
        /\ subscriptions[i].job = "done"
        /\ subscriptions[i].received = RejectedSignals

\* the subscriptions to an Observable that request returned for a missing handler
MissingHandlerSubscriptions ==
    { i \in 1..Len(subscriptions) :
        observables[subscriptions[i].observable].handler = Undefined }

MissingHandlerText(operation) ==
    << "Request handler not defined for query: " >> \o print(operation.query)

\* the warnings logged for a missing handler
MissingHandlerWarnings ==
    { k \in 1..Len(warnings) :
        Head(warnings[k]) = "Request handler not defined for query: " }

\* the observer of subscription i is signalled error(message) once and nothing
\* else: nothing while the error waits to be delivered or if the observer
\* unsubscribed before, << error(message) >> from its delivery on
ErrorOnly(i, message) ==
    LET sub == subscriptions[i]
        err == << [type |-> "error", value |-> message] >>
    IN  /\ sub.promise = "none" /\ sub.job = "none"
        /\ sub.state \in { "buffering", "closed" }
        /\ sub.state = "buffering" => sub.received = << >> /\ sub.queue = err
        /\ sub.state = "closed" /\ ~sub.unsubscribed => sub.received = err
        /\ sub.unsubscribed => sub.received = << >>

\* what a step of setRequestHandler and a step of request change, and no other
\* step does
RegistrationStep == registerCount' = registerCount + 1
DispatchStep ==
    /\ registerCount' = registerCount
    /\ emitCount' = emitCount
    /\ subscriptions' = subscriptions
SubscriptionStep == Len(subscriptions') = Len(subscriptions) + 1

\* a dispatch of operation whose key has no handler returns a new Observable
\* without raising and without logging
ReturnsStreamSilently(operation) ==
    /\ raised' = NoError
    /\ warnings' = warnings
    /\ observables' = Append(observables, [handler |-> Undefined, operation |-> operation])

\* C3: under throw-error, which is the policy of a link constructed without
\* one, a dispatch whose key has no handler raises to its caller an error
\* whose message ends with the text of the query, and constructs no stream.
C3_ThrowErrorRaisesSynchronously ==
    /\ [](options.missingHandlerPolicy = Undefined => missingHandlerPolicy = "throw-error")
    /\ [][\A operation \in Operations :
            /\ DispatchStep
            /\ missingHandlerPolicy = "throw-error"
            /\ requestHandlers[requestToKey(operation.query)] = Undefined
            /\ Request(operation)
            => /\ raised' = << "Request handler not defined for query: " >>
                              \o print(operation.query)
               /\ observables' = observables
               /\ subscriptions' = subscriptions]_vars

\* a link constructed without a policy has raised for GetPosts and holds no stream
C3_Witness ==
    /\ options.missingHandlerPolicy = Undefined
    /\ raised = << "Request handler not defined for query: ", "posts", "@connection" >>
    /\ observables = << >>

\* C4: under return-error, a dispatch whose key has no handler does not raise
\* and returns a stream; a subscription to it signals error once and neither
\* next nor complete; and no missing-handler warning is ever logged.
C4_ReturnErrorIsSilent ==
    /\ [](missingHandlerPolicy = "return-error"
            => /\ MissingHandlerWarnings = { }
               /\ \A i \in MissingHandlerSubscriptions :
                    ErrorOnly(i, MissingHandlerText(
                                    observables[subscriptions[i].observable].operation)))
    /\ [][missingHandlerPolicy = "return-error"
            => /\ \A operation \in Operations :
                    /\ DispatchStep
                    /\ requestHandlers[requestToKey(operation.query)] = Undefined
                    /\ Request(operation)
                    => ReturnsStreamSilently(operation)
               /\ \A o \in 1..Len(observables) :
                    /\ SubscriptionStep
                    /\ observables[o].handler = Undefined
                    /\ Subscribe(o)
                    => raised' = NoError /\ warnings' = warnings]_vars

\* under return-error an observer has received the missing-handler error
C4_Witness ==
    /\ missingHandlerPolicy = "return-error"
    /\ warnings = << >>
    /\ \E i \in MissingHandlerSubscriptions :
          subscriptions[i].received =
              << [type |-> "error",
                  value |-> << "Request handler not defined for query: ", "user" >>] >>

\* C5 as stated: under warn-and-return-error the warning is logged before the
\* stream is produced, so every stream returned for a missing handler has its
\* warning in the log.
C5_WarningPrecedesStream ==
    missingHandlerPolicy = "warn-and-return-error"
    => \A o \in 1..Len(observables) :
          observables[o].handler = Undefined
          => \E k \in 1..Len(warnings) :
                warnings[k] = MissingHandlerText(observables[o].operation)

\* C5 amended: under warn-and-return-error, a dispatch whose key has no
\* handler does not raise, logs nothing and returns a stream; each
\* subscription to the stream logs one warning, before its error is
\* delivered, and signals error once and neither next nor complete.
C5_WarningAtSubscription ==
    /\ [](missingHandlerPolicy = "warn-and-return-error"
            => /\ Cardinality(MissingHandlerWarnings)
                    = Cardinality(MissingHandlerSubscriptions)
               /\ \A i \in MissingHandlerSubscriptions :
                    ErrorOnly(i, MissingHandlerText(
                                    observables[subscriptions[i].observable].operation)))
    /\ [][missingHandlerPolicy = "warn-and-return-error"
            => /\ \A operation \in Operations :
                    /\ DispatchStep
                    /\ requestHandlers[requestToKey(operation.query)] = Undefined
                    /\ Request(operation)
                    => ReturnsStreamSilently(operation)
               /\ \A o \in 1..Len(observables) :
                    /\ SubscriptionStep
                    /\ observables[o].handler = Undefined
                    /\ Subscribe(o)
                    => /\ raised' = NoError
                       /\ warnings' = Append(warnings,
                                             MissingHandlerText(observables[o].operation))
                       /\ subscriptions'[Len(subscriptions')].received = << >>]_vars

\* under warn-and-return-error an observer has received the missing-handler
\* error and the one warning is in the log
C5_Witness ==
    /\ missingHandlerPolicy = "warn-and-return-error"
    /\ warnings = << << "Request handler not defined for query: ", "user" >> >>
    /\ \E i \in MissingHandlerSubscriptions :
          subscriptions[i].received =
              << [type |-> "error",
                  value |-> << "Request handler not defined for query: ", "user" >>] >>

\* the key setRequestHandler derives for requestQuery, a document that is not
\* entirely client-local
RegistrationKey(requestQuery) ==
    requestToKey(removeClientSetsFromDocument(requestQuery).document)

\* requestQuery is not entirely client-local and its key already has a handler
AlreadyRegistered(requestQuery) ==
    /\ ~removeClientSetsFromDocument(requestQuery).isNull
    /\ requestHandlers[RegistrationKey(requestQuery)] # Undefined

\* the duplicate error is raised for requestQuery and the registry is as it was
RaisesDuplicate(requestQuery) ==
    /\ raised' = << "Request handler already defined for query: " >> \o print(requestQuery)
    /\ requestHandlers' = requestHandlers

\* C6: a registration (without replace) for a document whose key already has
\* a handler raises the duplicate error to its caller and leaves the registry
\* as it was, so the first handler remains the one found for the key.
C6_DuplicateRaisesAndKeepsFirst ==
    [][\A q \in Queries, h \in Handlers :
          /\ RegistrationStep
          /\ AlreadyRegistered(q)
          /\ SetRequestHandler(q, h, FALSE)
          => RaisesDuplicate(q)]_vars

\* GetUserAndLocal was registered onto the key of GetUser: the call raised and
\* the key has its handler
C6_Witness ==
    /\ registerCount = 2
    /\ raised = << "Request handler already defined for query: ",
                   "user", "local", "@client" >>
    /\ requestHandlers[requestToKey(GetUser)] # Undefined

\* C7 as stated: a registration with replace set for a key that already has
\* a handler raises nothing and the new handler takes the key.
C7_ReplaceSupersedes ==
    [][\A q \in Queries, h \in Handlers :
          /\ RegistrationStep
          /\ AlreadyRegistered(q)
          /\ SetRequestHandler(q, h, TRUE)
          => /\ raised' = NoError
             /\ requestHandlers'[RegistrationKey(q)] = h]_vars

\* C7 amended: setRequestHandler has no replace option; a registration that
\* passes one for a key that already has a handler raises the duplicate
\* error like any other and leaves the first handler in place, and every
\* later dispatch of the key resolves to the handler the registry holds,
\* the first one.
C7_ReplaceIsIgnored ==
    /\ [][\A q \in Queries, h \in Handlers :
            /\ RegistrationStep
            /\ AlreadyRegistered(q)
            /\ SetRequestHandler(q, h, TRUE)
            => RaisesDuplicate(q)]_vars
    /\ [][\A operation \in Operations :
            /\ DispatchStep
            /\ requestHandlers[requestToKey(operation.query)] # Undefined
            /\ Request(operation)
            => observables' =
                 Append(observables,
                        [handler |-> requestHandlers[requestToKey(operation.query)],
                         operation |-> operation])]_vars
    /\ [](\A o \in 1..Len(observables) :
            observables[o].handler # Undefined
            => observables[o].handler
                 = requestHandlers[requestToKey(observables[o].operation.query)])

\* two registrations were made and neither was refused as client-local, one
\* key has a handler, so the second raised; a dispatch of GetUser then
\* resolved to the handler in the registry
C7_Witness ==
    /\ registerCount = 2
    /\ warnings = << >>
    /\ raised = NoError
    /\ \E o \in 1..Len(observables) :
          /\ observables[o].operation.query = GetUser
          /\ observables[o].handler # Undefined
          /\ observables[o].handler = requestHandlers[requestToKey(GetUser)]
    /\ Cardinality({ k \in Keys : requestHandlers[k] # Undefined }) = 1

\* the subscriptions whose handler call threw
ThrowingSubscriptions ==
    { i \in 1..Len(subscriptions) : subscriptions[i].result.threw }

\* the subscriptions whose handler returned neither a promise nor a MockSubscription
InvalidReturnSubscriptions ==
    { i \in 1..Len(subscriptions) :
        /\ ~subscriptions[i].result.threw
        /\ subscriptions[i].result.tag \in { "undefined", "number" } }

\* a dispatch whose key has a handler returns a stream and raises nothing
DispatchOfHandlerReturns ==
    \A operation \in Operations :
        /\ DispatchStep
        /\ requestHandlers[requestToKey(operation.query)] # Undefined
        /\ Request(operation)
        => raised' = NoError /\ Len(observables') = Len(observables) + 1

\* C8: when the matched handler throws, dispatch raises nothing and neither
\* does subscribing; the error, which carries what the handler threw, is
\* signalled to the observer once, with neither next nor complete.
C8_HandlerThrowIsSignalled ==
    /\ [](\A i \in ThrowingSubscriptions :
            ErrorOnly(i, << "Unexpected error whilst calling request handler: " >>
                         \o subscriptions[i].result.payload))
    /\ [][DispatchOfHandlerReturns
          /\ \A o \in 1..Len(observables) :
                /\ SubscriptionStep
                /\ observables[o].handler = "throwingHandler"
                /\ Subscribe(o)
                => raised' = NoError /\ Len(subscriptions') \in ThrowingSubscriptions']_vars

\* an observer has received the error that wraps the handler's "oops"
C8_Witness ==
    \E i \in ThrowingSubscriptions :
        /\ subscriptions[i].invoked.handler = "throwingHandler"
        /\ subscriptions[i].received =
              << [type |-> "error",
                  value |-> << "Unexpected error whilst calling request handler: ",
                               "oops" >>] >>

\* C9: when the matched handler returns neither a promise nor a
\* MockSubscription, dispatch and subscribing raise nothing; an error that
\* names the type of what was returned is signalled to the observer once,
\* with neither next nor complete.
C9_InvalidReturnIsSignalled ==
    /\ [](\A i \in InvalidReturnSubscriptions :
            ErrorOnly(i, << "Request handler must return a promise or subscription. Received '",
                            subscriptions[i].result.tag, "'." >>))
    /\ [][DispatchOfHandlerReturns
          /\ \A o \in 1..Len(observables) :
                /\ SubscriptionStep
                /\ observables[o].handler = "otherHandler"
                /\ Subscribe(o)
                => raised' = NoError
                   /\ Len(subscriptions') \in InvalidReturnSubscriptions']_vars

\* an observer has received the error that names 'number'
C9_Witness ==
    \E i \in InvalidReturnSubscriptions :
        /\ subscriptions[i].result.tag = "number"
        /\ subscriptions[i].received =
              << [type |-> "error",
                  value |-> << "Request handler must return a promise or subscription. Received '",
                               "number", "'." >>] >>

\* the MockSubscription has an observer and the observer is open
AttachedToOpenObserver ==
    observer # 0 /\ subscriptions[observer].state = "ready"

\* the attached observer receives signal once, after all it had received,
\* and no other observer receives anything
ForwardedOnce(signal) ==
    /\ Len(subscriptions') = Len(subscriptions)
    /\ subscriptions'[observer].received = Append(subscriptions[observer].received, signal)
    /\ \A i \in 1..Len(subscriptions) :
          i # observer => subscriptions'[i] = subscriptions[i]

\* C10: while the MockSubscription is attached to an open observer, each
\* next, error or complete call of the handler reaches that observer once,
\* as the call that was made and after everything received before; an
\* observer receives nothing after its first error or complete.
C10_ForwardedOnceInCallOrder ==
    /\ [][AttachedToOpenObserver
          => /\ MockSubscriptionNext
                => ForwardedOnce([type |-> "next",
                                  value |-> << "value", ToString(emitCount + 1) >>])
             /\ MockSubscriptionError
                => ForwardedOnce([type |-> "error",
                                  value |-> << "failure", ToString(emitCount + 1) >>])
             /\ MockSubscriptionComplete
                => ForwardedOnce([type |-> "complete", value |-> << >>])]_vars
    /\ [](\A i \in 1..Len(subscriptions) :
            \A k \in 1..(Len(subscriptions[i].received) - 1) :
                subscriptions[i].received[k].type = "next")

\* the handler called next, next, complete on an attached MockSubscription and
\* the observer received the three signals in that order
C10_Witness ==
    \E i \in 1..Len(subscriptions) :
        subscriptions[i].received =
            << [type |-> "next", value |-> << "value", "1" >>],
               [type |-> "next", value |-> << "value", "2" >>],
               [type |-> "complete", value |-> << >>] >>

\* a step of next, error or complete on the MockSubscription, and the signal
\* the call hands to this.observer
MockSubscriptionStep == emitCount' = emitCount + 1
CallSignals ==
    { [type |-> "next", value |-> << "value", ToString(emitCount + 1) >>],
      [type |-> "error", value |-> << "failure", ToString(emitCount + 1) >>],
      [type |-> "complete", value |-> << >>] }

\* the step attached a new observer to the MockSubscription
AttachStep == SubscriptionStep /\ observer' = Len(subscriptions')

\* C11: a next, error or complete call on a MockSubscription that no observer
\* has attached to raises nothing, reaches no observer and is not kept: the
\* observer that attaches later starts with nothing received and nothing
\* queued, and from then on receives only the signal of the call being made.
\* Each such call logs the "no observer" warning once, or nothing when
\* disableLogging is set.
C11_UnattachedCallsHaveNoEffect ==
    /\ [](observer = 0 => \A i \in 1..Len(subscriptions) : subscriptions[i].received = << >>)
    /\ [][MockSubscriptionStep /\ observer = 0
          => /\ raised' = NoError
             /\ subscriptions' = subscriptions
             /\ observer' = 0
             /\ warnings' = IF loggingDisabled
                            THEN warnings
                            ELSE Append(warnings,
                                        << "Warning: mock-apollo-client - Subscription has no observer, this will have no effect" >>)]_vars
    /\ [][AttachStep
          => /\ subscriptions'[observer'].received = << >>
             /\ subscriptions'[observer'].queue = << >>]_vars
    /\ [][\A i \in 1..Len(subscriptions) :
            subscriptions'[i].received # subscriptions[i].received
            => /\ MockSubscriptionStep
               /\ observer = i
               /\ \E signal \in CallSignals :
                     subscriptions'[i].received = Append(subscriptions[i].received, signal)]_vars

\* with logging enabled, two calls were made before any observer attached and
\* logged two warnings; the observer that attached then received the third
\* call's value and nothing of the first two
C11_Witness ==
    /\ ~loggingDisabled
    /\ emitCount = 3
    /\ warnings = << << "Warning: mock-apollo-client - Subscription has no observer, this will have no effect" >>,
                     << "Warning: mock-apollo-client - Subscription has no observer, this will have no effect" >> >>
    /\ observer # 0
    /\ subscriptions[observer].received = << [type |-> "next", value |-> << "value", "3" >>] >>

\* the MockSubscription has an observer and the observer reports closed
AttachedToClosedObserver ==
    observer # 0 /\ subscriptions[observer].state = "closed"

\* C12: an error or complete call that is forwarded to the open observer
\* closes the MockSubscription (its closed property is true afterwards), and
\* every next, error or complete call on a MockSubscription whose observer is
\* closed delivers nothing to any observer, raises nothing, leaves it closed,
\* and logs the "is closed" warning once, or nothing when disableLogging is set.
C12_ClosedCallsAreNoOps ==
    /\ [][/\ MockSubscriptionStep
          /\ AttachedToOpenObserver
          /\ MockSubscriptionError \/ MockSubscriptionComplete
          => closed']_vars
    /\ [][MockSubscriptionStep /\ AttachedToClosedObserver
          => /\ subscriptions' = subscriptions
             /\ raised' = NoError
             /\ closed'
             /\ warnings' = IF loggingDisabled
                            THEN warnings
                            ELSE Append(warnings,
                                        << "Warning: mock-apollo-client - Subscription is closed, this will have no effect" >>)]_vars

\* with logging enabled, the handler's error call closed the MockSubscription
\* and its next two calls logged the warning; the observer received the error
\* and nothing after it
C12_Witness ==
    /\ ~loggingDisabled
    /\ emitCount = 3
    /\ observer # 0
    /\ closed
    /\ subscriptions[observer].received =
          << [type |-> "error", value |-> << "failure", "1" >>] >>
    /\ warnings = << << "Warning: mock-apollo-client - Subscription is closed, this will have no effect" >>,
                     << "Warning: mock-apollo-client - Subscription is closed, this will have no effect" >> >>

\* C13: attaching an observer to a MockSubscription that already has one
\* raises nothing and logs the override warning once (nothing when
\* disableLogging is set), while a first attachment logs nothing; the new
\* observer takes the place of the old one, so every later call reaches the
\* observer attached last and no other observer receives anything.
C13_SecondObserverReplacesFirst ==
    /\ [][AttachStep
          => /\ raised' = NoError
             /\ warnings' = IF observer # 0 /\ ~loggingDisabled
                            THEN Append(warnings,
                                        << "Warning: mock-apollo-client - Subscription observer should probably not be overriden" >>)
                            ELSE warnings
             /\ \A i \in 1..Len(subscriptions) : subscriptions'[i] = subscriptions[i]]_vars
    /\ [][MockSubscriptionStep
          => \A i \in 1..Len(subscriptions) :
                IF i = observer /\ subscriptions[i].state = "ready"
                THEN \E signal \in CallSignals :
                        subscriptions'[i].received = Append(subscriptions[i].received, signal)
                ELSE subscriptions'[i].received = subscriptions[i].received]_vars

\* with logging enabled, the first observer received the first call's value;
\* a second observer attached, which logged the warning, and received the
\* second and third calls' values, of which the first observer received none
C13_Witness ==
    /\ ~loggingDisabled
    /\ Len(subscriptions) = 2
    /\ observer = 2
    /\ warnings = << << "Warning: mock-apollo-client - Subscription observer should probably not be overriden" >> >>
    /\ subscriptions[1].received = << [type |-> "next", value |-> << "value", "1" >>] >>
    /\ subscriptions[2].received = << [type |-> "next", value |-> << "value", "2" >>],
                                      [type |-> "next", value |-> << "value", "3" >>] >>

\* what of a document a server would act on: its fields without those marked
\* @client and without __typename, each without its @connection directive
ServerStructure(doc) ==
    LET kept == SelectSeq(doc, LAMBDA f : ~f.client /\ f.name # "__typename")
    IN  [i \in 1..Len(kept) |-> [kept[i] EXCEPT !.connection = FALSE]]

\* C14: the key derived for a document depends on its server-significant
\* structure and on nothing else: for every document the client has
\* dispatched and every document d (neither of them entirely client-local),
\* the key request derived and the key of d are identical exactly when the
\* two documents differ only in @client fields, @connection directives and
\* __typename fields.
C14_KeysIgnoreRemovedArtifacts ==
    \A o \in 1..Len(observables) :
        \A d \in Queries :
            LET q == observables[o].operation.query
            IN  ServerStructure(q) # << >> /\ ServerStructure(d) # << >>
                => (requestToKey(q) = requestToKey(d)
                    <=> ServerStructure(q) = ServerStructure(d))

\* every field of the document is marked @client
EntirelyClientLocal(requestQuery) ==
    \A i \in 1..Len(requestQuery) : requestQuery[i].client

\* C15: a registration for a document that is entirely client-local, with
\* any handler, raises nothing, logs one warning and leaves the registry as
\* it was: every key has the handler, or none, that it had before.
C15_ClientLocalRegistrationIsNoOp ==
    [][\A q \in Queries :
          /\ RegistrationStep
          /\ EntirelyClientLocal(q)
          /\ \E h \in Handlers, replace \in BOOLEAN : SetRequestHandler(q, h, replace)
          => /\ raised' = NoError
             /\ warnings' = Append(warnings,
                                   << "Warning: mock-apollo-client - The query is entirely client side (using @client directives) so the request handler will not be registered." >>)
             /\ requestHandlers' = requestHandlers]_vars

\* after a handler was registered for a server query, a registration for a
\* client-local document logged the warning and the registry holds the one
\* handler
C15_Witness ==
    /\ registerCount = 2
    /\ raised = NoError
    /\ warnings = << << "Warning: mock-apollo-client - The query is entirely client side (using @client directives) so the request handler will not be registered." >> >>
    /\ Cardinality({ k \in Keys : requestHandlers[k] # Undefined }) = 1

\* the step unsubscribed subscription i
UnsubscribeStep(i) ==
    ~subscriptions[i].unsubscribed /\ subscriptions'[i].unsubscribed

\* C16: when a subscriber unsubscribes, MockLink does nothing towards the
\* handler's side: it makes no call on the MockSubscription, which keeps the
\* observer it had, logs nothing and raises nothing; the handler's promise
\* stays as it was, pending or settled, with the reaction that was due still
\* due; the registry and the other subscriptions are untouched; and neither
\* then nor ever after does the observer that left receive anything.
C16_TeardownIsNoOp ==
    /\ [][\A i \in 1..Len(subscriptions) :
            UnsubscribeStep(i)
            => /\ observer' = observer
               /\ emitCount' = emitCount
               /\ warnings' = warnings
               /\ raised' = NoError
               /\ requestHandlers' = requestHandlers
               /\ subscriptions'[i].promise = subscriptions[i].promise
               /\ subscriptions'[i].job = subscriptions[i].job
               /\ subscriptions'[i].received = subscriptions[i].received
               /\ \A j \in 1..Len(subscriptions) :
                     j # i => subscriptions'[j] = subscriptions[j]]_vars
    /\ [][\A i \in 1..Len(subscriptions) :
            subscriptions[i].unsubscribed
            => subscriptions'[i].received = subscriptions[i].received]_vars

\* a subscriber left before the then reaction ran; the handler's promise is
\* fulfilled and both reactions have run all the same, and the observer has
\* received nothing
C16_Witness ==
    \E i \in 1..Len(subscriptions) :
        /\ subscriptions[i].unsubscribed
        /\ subscriptions[i].promise = "fulfilled"
        /\ subscriptions[i].job = "done"
        /\ subscriptions[i].received = << >>

\* the handler a dispatch of a document finds: the one request looks up
Resolved(handlers, query) == handlers[requestToKey(query)]

\* C17: once a registration of handler h for a document D that is not
\* entirely client-local has succeeded, a dispatch of D finds h: the
\* registration leaves h where request looks D up, no later step removes or
\* changes an entry, and a dispatch whose lookup finds a handler returns the
\* stream of that handler instead of applying the missing-handler policy.
C17_DispatchResolvesRegistered ==
    /\ [][\A q \in Queries, h \in Handlers :
            /\ RegistrationStep
            /\ ~EntirelyClientLocal(q)
            /\ SetRequestHandler(q, h, FALSE)
            /\ raised' = NoError
            => Resolved(requestHandlers', q) = h]_vars
    /\ [][\A k \in Keys :
            requestHandlers[k] # Undefined => requestHandlers'[k] = requestHandlers[k]]_vars
    /\ [][\A operation \in Operations :
            /\ DispatchStep
            /\ Resolved(requestHandlers, operation.query) # Undefined
            /\ Request(operation)
            => /\ raised' = NoError
               /\ observables' =
                    Append(observables,
                           [handler |-> Resolved(requestHandlers, operation.query),
                            operation |-> operation])]_vars

\* C18 as stated: once the MockSubscription has been attached and is closed,
\* it is closed after every step.
C18_ClosedIsTerminal ==
    [][observer # 0 /\ closed => closed']_vars

\* C18 amended: closed follows the observer attached last.  An observer that
\* is closed stays closed, so while the MockSubscription keeps its observer
\* no next, error or complete call and no unsubscription makes closed false
\* again; attaching a new observer to the closed MockSubscription does: the
\* new observer is open, and closed is false until that observer closes.
C18_ClosedUntilReattached ==
    /\ [][\A i \in 1..Len(subscriptions) :
            subscriptions[i].state = "closed" => subscriptions'[i].state = "closed"]_vars
    /\ [][observer # 0 /\ closed /\ observer' = observer => closed']_vars
    /\ [][observer # 0 /\ closed /\ AttachStep => ~closed']_vars

\* with logging enabled, the first observer was closed by the handler's error
\* call and a later call logged that the MockSubscription is closed; a second
\* observer then attached, and closed is false again
C18_Witness ==
    /\ ~loggingDisabled
    /\ Len(subscriptions) = 2
    /\ subscriptions[1].received = << [type |-> "error", value |-> << "failure", "1" >>] >>
    /\ warnings = << << "Warning: mock-apollo-client - Subscription is closed, this will have no effect" >>,
                     << "Warning: mock-apollo-client - Subscription observer should probably not be overriden" >> >>
    /\ observer = 2
    /\ ~closed

\* the subscriptions to Observable o in which the handler was called
Invocations(o) ==
    { i \in 1..Len(subscriptions) :
        subscriptions[i].observable = o /\ subscriptions[i].invoked.handler # Undefined }

\* C19 as stated: the handler a dispatch matched is called exactly once for
\* that dispatch, however many subscriptions the returned stream has.
C19_InvokedOncePerDispatch ==
    \A o \in 1..Len(observables) :
        observables[o].handler # Undefined => Cardinality(Invocations(o)) = 1

\* C19 amended: the handler a dispatch matched is called once for every
\* subscription to the returned stream, with the variables of that dispatch's
\* operation, and at no other time: a step that returns a stream calls no
\* handler, a step that subscribes records the one call of the new
\* subscription, and no step adds a call to a subscription or changes one.
\* A stream with no subscription has had no call, one with n has had n.
C19_InvokedOncePerSubscription ==
    /\ [](\A i \in 1..Len(subscriptions) :
            LET o == observables[subscriptions[i].observable]
            IN  subscriptions[i].invoked =
                    IF o.handler = Undefined
                    THEN [handler |-> Undefined, variables |-> Undefined]
                    ELSE [handler |-> o.handler, variables |-> o.operation.variables])
    /\ [](\A o \in 1..Len(observables) :
            observables[o].handler # Undefined
            => Cardinality(Invocations(o))
                 = Cardinality({ i \in 1..Len(subscriptions) :
                                   subscriptions[i].observable = o }))
    /\ [][/\ Len(observables') # Len(observables) => subscriptions' = subscriptions
          /\ Len(subscriptions') \in { Len(subscriptions), Len(subscriptions) + 1 }
          /\ \A i \in 1..Len(subscriptions) :
                subscriptions'[i].invoked = subscriptions[i].invoked]_vars

\* GetUser was dispatched twice with different variables; the first stream
\* was subscribed twice and the handler called twice with its variables, the
\* second stream was not subscribed and the handler not called for it
C19_Witness ==
    /\ Len(observables) = 2
    /\ observables[1].handler # Undefined
    /\ observables[2].handler # Undefined
    /\ observables[1].operation.variables # observables[2].operation.variables
    /\ Len(subscriptions) = 2
    /\ Invocations(1) = { 1, 2 }
    /\ Invocations(2) = { }
    /\ \A i \in 1..2 :
          subscriptions[i].invoked.variables = observables[1].operation.variables

\* C20: the handler a stream uses, or its absence, is the one request found
\* in the registry when it was called: request puts what its lookup found in
\* the stream, no later step changes what a stream holds, and every
\* subscription to the stream goes by it whatever the registry holds by then.
\* A stream returned while the query had no handler signals the
\* missing-handler error once to each subscriber and calls no handler, also
\* when a handler has been registered since; a stream returned for a handler
\* calls that handler.
C20_HandlerFixedAtDispatch ==
    /\ [][DispatchStep /\ Len(observables') = Len(observables) + 1
          => LET new == observables'[Len(observables')]
             IN  new.handler = Resolved(requestHandlers, new.operation.query)]_vars
    /\ [][\A o \in 1..Len(observables) : observables'[o] = observables[o]]_vars
    /\ [](\A i \in 1..Len(subscriptions) :
            LET o == observables[subscriptions[i].observable]
            IN  IF o.handler = Undefined
                THEN /\ subscriptions[i].invoked.handler = Undefined
                     /\ ErrorOnly(i, << "Request handler not defined for query: " >>
                                     \o print(o.operation.query))
                ELSE subscriptions[i].invoked.handler = o.handler)

\* GetUser was dispatched while it had no handler; the registry now holds a
\* handler for it, and the subscriber of the stream has received the
\* missing-handler error
C20_Witness ==
    \E i \in 1..Len(subscriptions) :
        LET o == observables[subscriptions[i].observable]
        IN  /\ o.handler = Undefined
            /\ o.operation.query = GetUser
            /\ requestHandlers[requestToKey(GetUser)] # Undefined
            /\ subscriptions[i].received =
                  << [type |-> "error",
                      value |-> << "Request handler not defined for query: ", "user" >>] >>

=============================================================================
